---- MODULE Spec2Model ----
(***************************************************************************)
(* Tool dispatcher of the todo MCP server (mcp_server.py) in front of the  *)
(* todo REST service (main.py).                                            *)
(*                                                                         *)
(* One tool invocation runs Received -> Validated -> Dispatched ->         *)
(* {Succeeded, Failed}.  The code of a handler up to its                   *)
(* "await self.client.<verb>(...)" is the validation step, the await is    *)
(* the dispatch step, the code after it is the completion step.            *)
(*                                                                         *)
(* Python values are tagged records.  A string is kept as the lengths of   *)
(* its leading whitespace, its core (first to last non-whitespace          *)
(* character) and its trailing whitespace; a whitespace-only string has    *)
(* core = 0 and trail = 0.  A string that stands where the service wants   *)
(* a number or a boolean is text that does not parse as one ("abc").       *)
(*                                                                         *)
(* The second half models the Metrics object of main.py and the middleware *)
(* log_requests around every request.  The middleware and record_request   *)
(* run on the one event loop thread; get_metrics is a def, so get_stats    *)
(* runs in a worker thread and its statements interleave with those of     *)
(* record_request.  Spec and FairSpec move the dispatcher only,            *)
(* MetricsSpec, MiddlewareSpec and ErrorLogSpec the service's middleware   *)
(* only.                                                                   *)
(***************************************************************************)
EXTENDS Integers, FiniteSets, Sequences, TLC

\* ------------------------------------------------------------------ bounds
\* Largest id the storage assigns in the model; the ids given to the tools go
\* one beyond it.
MaxTodos == 1

\* Requests that pass through the middleware in one run of the concurrent
\* server; all of them can be in flight at once.
MaxRequests == 2

\* record_error calls in one run of the error log.
MaxErrors == 102

\* ------------------------------------------------------- program constants
TitleMax == 200
DescriptionMax == 1000
DefaultSkip == 0
DefaultLimit == 100
ErrorLogMax == 100
RecentShown == 10

\* ---------------------------------------------------------- Python values
Absent == [t |-> "absent"]
PyNone == [t |-> "none"]
PyBool(b) == [t |-> "bool", b |-> b]
PyInt(n) == [t |-> "int", n |-> n]
PyStr(lead, core, trail) == [t |-> "str", lead |-> lead, core |-> core, trail |-> trail]

Keys == {"todo_id", "title", "description", "completed", "favorite", "skip", "limit"}

\* dict.get(key): a missing key reads as None
Get(d, k) == IF d[k] = Absent THEN PyNone ELSE d[k]

\* dict.get(key, default)
GetDefault(d, k, dflt) == IF d[k] = Absent THEN dflt ELSE d[k]

\* Python truth value, as tested by "if x" and "not x"
Truthy(v) ==
  CASE v.t = "bool" -> v.b
    [] v.t = "int" -> v.n /= 0
    [] v.t = "str" -> v.lead + v.core + v.trail > 0
    [] OTHER -> FALSE

\* len(s) of a string
Len_(s) == s.lead + s.core + s.trail

\* str.strip()
Strip(s) == PyStr(0, s.core, 0)

\* only a str has .strip(); on anything else the call raises AttributeError
HasStrip(v) == v.t = "str"

\* ------------------------------------------------------------- envelopes
\* A message is a literal text and the value interpolated into it (Absent: none).
Msg(text, arg) == [text |-> text, arg |-> arg]

\* interpolated values that are no argument values
Text(s) == [t |-> "text", s |-> s]
ExceptionText == [t |-> "exception"]

\* mutant: the error envelope carries a success flag as well
ErrorEnvelope_WithSuccessFlag(msg, kind) == [success |-> FALSE, error |-> msg, type |-> kind]

ErrorEnvelope(msg, kind) == [error |-> msg, type |-> kind]

ApiErrorEnvelope(msg, resp) == [error |-> msg, details |-> resp.body, type |-> "api_error"]

TimeoutEnvelope ==
  ErrorEnvelope(Msg("Request timed out. Please check if the API server is running.", Absent),
                "timeout_error")

ConnectEnvelope ==
  ErrorEnvelope(Msg("Could not connect to API server. Please ensure it's running on http://localhost:8000", Absent),
                "connection_error")

InternalEnvelope == ErrorEnvelope(Msg("Unexpected error: ", ExceptionText), "internal_error")

\* outcome of the code before the transport call
Return(env) == [k |-> "return", env |-> env]
Send(req) == [k |-> "send", req |-> req]
Raise == [k |-> "raise"]

\* an HTTP request: method, route, path parameter, JSON body or query
Request(method, route, id, f) == [method |-> method, route |-> route, id |-> id, f |-> f]

NoFields == [k \in Keys |-> Absent]

\* ----------------------------------------------- validation of a tool call
TodoIdRequired == Return(ErrorEnvelope(Msg("todo_id is required", Absent), "validation_error"))

EmptyTitle == Return(ErrorEnvelope(Msg("Title cannot be empty or just whitespace", Absent), "validation_error"))

TitleTooLong == Return(ErrorEnvelope(Msg("Title must be 200 characters or less", Absent), "validation_error"))

DescriptionTooLong ==
  Return(ErrorEnvelope(Msg("Description must be 1000 characters or less", Absent), "validation_error"))

NoFieldsToUpdate ==
  Return(ErrorEnvelope(Msg("No fields to update. Please provide at least one field.", Absent),
                       "validation_error"))

\* "if not todo_id": a missing id, None and 0 are all falsy
MissingId(todo_id) == ~Truthy(todo_id)

\* mutant: the check for an empty body is missing
NoData_NeverEmpty(data) == FALSE

\* "if not data" of _update_todo: no field made it into the body
NoData(data) == \A k \in Keys : data[k] = Absent

\* _create_todo up to "await self.client.post"
create_todo_pre(a) ==
  IF ~a.dict THEN Return(InternalEnvelope)
  ELSE
    LET tv == GetDefault(a.f, "title", PyStr(0, 0, 0))
        dv == Get(a.f, "description")
    IN  IF ~HasStrip(tv) THEN Return(InternalEnvelope)
        ELSE IF Truthy(dv) /\ ~HasStrip(dv) THEN Return(InternalEnvelope)
        ELSE
          LET title == Strip(tv)
              description == IF Truthy(dv) THEN Strip(dv) ELSE PyNone
              completed == GetDefault(a.f, "completed", PyBool(FALSE))
              favorite == GetDefault(a.f, "favorite", PyBool(FALSE))
              data == [k \in Keys |->
                         CASE k = "title" -> title
                           [] k = "completed" -> completed
                           [] k = "favorite" -> favorite
                           [] k = "description" ->
                                IF Truthy(description) THEN description ELSE Absent
                           [] OTHER -> Absent]
          IN  IF ~Truthy(title) THEN EmptyTitle
              ELSE IF Len_(title) > TitleMax THEN TitleTooLong
              ELSE IF Truthy(description) /\ Len_(description) > DescriptionMax
                THEN DescriptionTooLong
              ELSE Send(Request("POST", "/todos", Absent, data))

\* _list_todos up to "await self.client.get"
list_todos_pre(a) ==
  IF ~a.dict THEN Return(InternalEnvelope)
  ELSE
    LET completed == Get(a.f, "completed")
        skip == GetDefault(a.f, "skip", PyInt(DefaultSkip))
        limit == GetDefault(a.f, "limit", PyInt(DefaultLimit))
        params == [k \in Keys |->
                     CASE k = "skip" -> skip
                       [] k = "limit" -> limit
                       [] k = "completed" -> IF completed /= PyNone THEN completed ELSE Absent
                       [] OTHER -> Absent]
    IN  Send(Request("GET", "/todos", Absent, params))

\* _get_todo up to "await self.client.get"
get_todo_pre(a) ==
  IF ~a.dict THEN Return(InternalEnvelope)
  ELSE
    LET todo_id == Get(a.f, "todo_id")
    IN  IF MissingId(todo_id) THEN TodoIdRequired
        ELSE Send(Request("GET", "/todos/{id}", todo_id, NoFields))

\* _update_todo up to "await self.client.put"
update_todo_pre(a) ==
  IF ~a.dict THEN Return(InternalEnvelope)
  ELSE
    LET todo_id == Get(a.f, "todo_id")
        tv == Get(a.f, "title")
        dv == Get(a.f, "description")
        completed == Get(a.f, "completed")
        favorite == Get(a.f, "favorite")
    IN  IF MissingId(todo_id) THEN TodoIdRequired
        ELSE IF tv /= PyNone /\ ~HasStrip(tv) THEN Return(InternalEnvelope)
        ELSE IF tv /= PyNone /\ ~Truthy(Strip(tv)) THEN EmptyTitle
        ELSE IF tv /= PyNone /\ Len_(Strip(tv)) > TitleMax THEN TitleTooLong
        ELSE IF dv /= PyNone /\ ~HasStrip(dv) THEN Return(InternalEnvelope)
        ELSE IF dv /= PyNone /\ Len_(Strip(dv)) > DescriptionMax THEN DescriptionTooLong
        ELSE
          LET data == [k \in Keys |->
                         CASE k = "title" -> IF tv /= PyNone THEN Strip(tv) ELSE Absent
                           [] k = "description" -> IF dv /= PyNone THEN Strip(dv) ELSE Absent
                           [] k = "completed" ->
                                IF completed /= PyNone THEN completed ELSE Absent
                           [] k = "favorite" -> IF favorite /= PyNone THEN favorite ELSE Absent
                           [] OTHER -> Absent]
          IN  IF NoData(data) THEN NoFieldsToUpdate
              ELSE Send(Request("PUT", "/todos/{id}", todo_id, data))

\* _delete_todo up to "await self.client.delete"
delete_todo_pre(a) ==
  IF ~a.dict THEN Return(InternalEnvelope)
  ELSE
    LET todo_id == Get(a.f, "todo_id")
    IN  IF MissingId(todo_id) THEN TodoIdRequired
        ELSE Send(Request("DELETE", "/todos/{id}", todo_id, NoFields))

\* arguments["completed"] = value: raises TypeError when arguments is no dict,
\* outside any try of the handler
SetCompleted(a, b) == [a EXCEPT !.f["completed"] = PyBool(b)]

ToolNames ==
  {"create_todo", "list_todos", "get_todo", "update_todo", "delete_todo",
   "mark_todo_complete", "mark_todo_incomplete"}

\* mutant: an unknown tool name is reported as a validation error
UnknownTool_AsValidation == ErrorEnvelope(Msg("Unknown tool: ", Text("tool_name")), "validation_error")

UnknownTool == ErrorEnvelope(Msg("Unknown tool: ", Text("tool_name")), "invalid_tool")

\* the handler a tool name selects, with its arguments as the handler reads them
HandlerOf(tool_name) ==
  CASE tool_name = "create_todo" -> "create"
    [] tool_name = "list_todos" -> "list"
    [] tool_name = "get_todo" -> "get"
    [] tool_name = "update_todo" -> "update"
    [] tool_name = "delete_todo" -> "delete"
    [] tool_name = "mark_todo_complete" -> "update"
    [] tool_name = "mark_todo_incomplete" -> "update"
    [] OTHER -> "none"

\* _call_tool up to the handler's transport call
call_tool_pre(tool_name, a) ==
  LET h == CASE tool_name = "create_todo" -> create_todo_pre(a)
             [] tool_name = "list_todos" -> list_todos_pre(a)
             [] tool_name = "get_todo" -> get_todo_pre(a)
             [] tool_name = "update_todo" -> update_todo_pre(a)
             [] tool_name = "delete_todo" -> delete_todo_pre(a)
             [] tool_name = "mark_todo_complete" ->
                  IF ~a.dict THEN Raise ELSE update_todo_pre(SetCompleted(a, TRUE))
             [] tool_name = "mark_todo_incomplete" ->
                  IF ~a.dict THEN Raise ELSE update_todo_pre(SetCompleted(a, FALSE))
             [] OTHER -> Return(UnknownTool)
  IN  IF h = Raise
        THEN Return(ErrorEnvelope(Msg("Tool execution error: ", ExceptionText), "execution_error"))
        ELSE h

\* ------------------------------------------- mapping a transport outcome
\* A transport outcome is a response [k |-> "response", status, body] or an
\* exception: "timeout" (httpx.TimeoutException), "connect" (httpx.ConnectError),
\* "error" (any other exception of the client).
Response(status, body) == [k |-> "response", status |-> status, body |-> body]

\* Response bodies: a JSON object with an id (a record), a JSON list of records,
\* a JSON object with a "detail" member, and a body that is no JSON (or empty).
TodoBody(todo) == [k |-> "todo", todo |-> todo]
DetailBody(detail) == [k |-> "detail", detail |-> detail]
NoBody == [k |-> "none"]

\* response.json() raises on a body that is no JSON
JsonOk(body) == body.k /= "none"

\* the 422 branch of _create_todo and _update_todo, with
\* response.json().get("detail", "Validation error")
UpstreamValidation(resp) ==
  IF ~JsonOk(resp.body) \/ resp.body.k = "todos" THEN InternalEnvelope
  ELSE LET detail == IF resp.body.k = "detail" THEN resp.body.detail ELSE "Validation error"
       IN  ErrorEnvelope(Msg("Validation error: ", Text(detail)), "validation_error")

NotFound(todo_id) == ErrorEnvelope(Msg("Todo with ID {todo_id} not found", todo_id), "not_found")

\* the except clauses shared by the five handlers
\* mutant: the two except clauses carry each other's kind
TransportException_Swapped(out) ==
  CASE out.k = "timeout" -> ConnectEnvelope
    [] out.k = "connect" -> TimeoutEnvelope
    [] OTHER -> InternalEnvelope

TransportException(out) ==
  CASE out.k = "timeout" -> TimeoutEnvelope
    [] out.k = "connect" -> ConnectEnvelope
    [] OTHER -> InternalEnvelope

\* _create_todo after "await self.client.post"
create_todo_post(req, out) ==
  IF out.k /= "response" THEN TransportException(out)
  ELSE IF out.status = 201 THEN
    IF out.body.k = "todo"
      THEN [success |-> TRUE,
            message |-> Msg("Todo created successfully with ID ", PyInt(out.body.todo.id)),
            todo |-> out.body.todo]
      ELSE InternalEnvelope
  ELSE IF out.status = 422 THEN UpstreamValidation(out)
  ELSE ApiErrorEnvelope(Msg("Failed to create todo. Status: ", PyInt(out.status)), out)

\* _list_todos after "await self.client.get"
list_todos_post(req, out) ==
  IF out.k /= "response" THEN TransportException(out)
  ELSE IF out.status = 200 THEN
    IF ~JsonOk(out.body) THEN InternalEnvelope
    ELSE IF out.body.k = "todos" /\ out.body.todos = <<>>
      THEN [success |-> TRUE, message |-> Msg("No todos found", Absent), todos |-> out.body]
      ELSE [success |-> TRUE,
            summary |-> Msg("Found {count} todo(s)", req.f["completed"]),
            count |-> IF out.body.k = "todos" THEN Len(out.body.todos) ELSE 1,
            todos |-> out.body]
  ELSE ApiErrorEnvelope(Msg("Failed to list todos. Status: ", PyInt(out.status)), out)

\* _get_todo after "await self.client.get"
get_todo_post(req, out) ==
  IF out.k /= "response" THEN TransportException(out)
  ELSE IF out.status = 200 THEN
    IF JsonOk(out.body) THEN [success |-> TRUE, todo |-> out.body] ELSE InternalEnvelope
  ELSE IF out.status = 404 THEN NotFound(req.id)
  ELSE ApiErrorEnvelope(Msg("Failed to get todo. Status: ", PyInt(out.status)), out)

\* _update_todo after "await self.client.put"
update_todo_post(req, out) ==
  IF out.k /= "response" THEN TransportException(out)
  ELSE IF out.status = 200 THEN
    IF JsonOk(out.body)
      THEN [success |-> TRUE,
            message |-> Msg("Todo {todo_id} updated successfully", req.id),
            updated_fields |-> {k \in Keys : req.f[k] /= Absent},
            todo |-> out.body]
      ELSE InternalEnvelope
  ELSE IF out.status = 404 THEN NotFound(req.id)
  ELSE IF out.status = 422 THEN UpstreamValidation(out)
  ELSE ApiErrorEnvelope(Msg("Failed to update todo. Status: ", PyInt(out.status)), out)

\* _delete_todo after "await self.client.delete"
delete_todo_post(req, out) ==
  IF out.k /= "response" THEN TransportException(out)
  ELSE IF out.status = 204
    THEN [success |-> TRUE, message |-> Msg("Todo {todo_id} deleted successfully", req.id)]
  ELSE IF out.status = 404 THEN NotFound(req.id)
  ELSE ApiErrorEnvelope(Msg("Failed to delete todo. Status: ", PyInt(out.status)), out)

\* _call_tool from the handler's transport call on
call_tool_post(tool_name, req, out) ==
  CASE HandlerOf(tool_name) = "create" -> create_todo_post(req, out)
    [] HandlerOf(tool_name) = "list" -> list_todos_post(req, out)
    [] HandlerOf(tool_name) = "get" -> get_todo_post(req, out)
    [] HandlerOf(tool_name) = "update" -> update_todo_post(req, out)
    [] HandlerOf(tool_name) = "delete" -> delete_todo_post(req, out)

\* --------------------------------------------------- the service (main.py)
\* A stored record.  title is a str, description a str or None.  created_at is
\* set when the row is inserted (default=datetime.utcnow) and is kept as the
\* ordinal of the insert, which is the id.
Todo(id, title, description, completed, favorite) ==
  [id |-> id, title |-> title, description |-> description,
   completed |-> completed, favorite |-> favorite, created_at |-> id]

\* the id the storage assigns to the next record
NextId(st) ==
  IF DOMAIN st = {} THEN 1
  ELSE (CHOOSE m \in DOMAIN st : \A i \in DOMAIN st : i <= m) + 1

\* mutant: the service allows a title one character less than the adapter
TitleAccepted_Shorter(v) ==
  /\ v.t = "str"
  /\ Len_(v) >= 1
  /\ Len_(v) <= TitleMax - 1
  /\ Truthy(Strip(v))

\* Field(min_length=1, max_length=200) and the title validators
TitleAccepted(v) ==
  /\ v.t = "str"
  /\ Len_(v) >= 1
  /\ Len_(v) <= TitleMax
  /\ Truthy(Strip(v))

\* Field(max_length=1000) of an Optional[str]
DescriptionAccepted(v) ==
  \/ v \in {Absent, PyNone}
  \/ v.t = "str" /\ Len_(v) <= DescriptionMax

\* clean_description: "if v: return v.strip()", else v as it is
clean_description(v) == IF Truthy(v) THEN Strip(v) ELSE v

\* TodoCreate: title required, flags are bool with default False
TodoCreateAccepted(f) ==
  /\ TitleAccepted(f["title"])
  /\ DescriptionAccepted(f["description"])
  /\ f["completed"] = Absent \/ f["completed"].t = "bool"
  /\ f["favorite"] = Absent \/ f["favorite"].t = "bool"

\* TodoUpdate: every field Optional
TodoUpdateAccepted(f) ==
  /\ f["title"] \in {Absent, PyNone} \/ TitleAccepted(f["title"])
  /\ DescriptionAccepted(f["description"])
  /\ f["completed"] \in {Absent, PyNone} \/ f["completed"].t = "bool"
  /\ f["favorite"] \in {Absent, PyNone} \/ f["favorite"].t = "bool"

\* get_all_todos parameters: skip: int = 0, limit: int = 100, completed: Optional[bool]
ListQueryAccepted(f) ==
  /\ f["skip"] = Absent \/ f["skip"].t = "int"
  /\ f["limit"] = Absent \/ f["limit"].t = "int"
  /\ f["completed"] = Absent \/ f["completed"].t = "bool"

\* todo_id: int in the path
PathIdAccepted(id) == id.t = "int"

Unprocessable == Response(422, DetailBody("request validation failed"))

TodoNotFound == Response(404, DetailBody("Todo with id {todo_id} not found"))

Served(resp, st) == [resp |-> resp, store |-> st]

\* a flag of a request body, with the value a missing member takes
Flag(v, dflt) == IF v.t = "bool" THEN v.b ELSE dflt

\* create_todo of main.py
service_create_todo(st, req) ==
  IF ~TodoCreateAccepted(req.f) THEN Served(Unprocessable, st)
  ELSE
    LET id == NextId(st)
        db_todo == Todo(id, Strip(req.f["title"]),
                        IF req.f["description"] = Absent THEN PyNone
                        ELSE clean_description(req.f["description"]),
                        Flag(req.f["completed"], FALSE), Flag(req.f["favorite"], FALSE))
    IN  Served(Response(201, TodoBody(db_todo)),
               [i \in DOMAIN st \cup {id} |-> IF i = id THEN db_todo ELSE st[i]])

RECURSIVE IdsAscending(_)
IdsAscending(S) ==
  IF S = {} THEN << >>
  ELSE LET m == CHOOSE x \in S : \A y \in S : x <= y
       IN  <<m>> \o IdsAscending(S \ {m})

\* get_all_todos of main.py; page is query.offset(skip).limit(limit).all()
service_get_all_todos(st, req) ==
  IF ~ListQueryAccepted(req.f) THEN Served(Unprocessable, st)
  ELSE
    LET skip == IF req.f["skip"] = Absent THEN DefaultSkip ELSE req.f["skip"].n
        limit == IF req.f["limit"] = Absent THEN DefaultLimit ELSE req.f["limit"].n
        ids == {i \in DOMAIN st :
                  req.f["completed"] = Absent \/ st[i].completed = req.f["completed"].b}
        rows == IdsAscending(ids)
        page == SubSeq(rows, skip + 1,
                       IF skip + limit < Len(rows) THEN skip + limit ELSE Len(rows))
    IN  Served(Response(200, [k |-> "todos", todos |-> [n \in DOMAIN page |-> st[page[n]]]]), st)

\* get_todo of main.py
service_get_todo(st, req) ==
  IF ~PathIdAccepted(req.id) THEN Served(Unprocessable, st)
  ELSE IF req.id.n \notin DOMAIN st THEN Served(TodoNotFound, st)
  ELSE Served(Response(200, TodoBody(st[req.id.n])), st)

\* mutant: a field the body does not supply is set to its default
service_update_todo_Defaulting(st, req) ==
  IF ~PathIdAccepted(req.id) \/ ~TodoUpdateAccepted(req.f) THEN Served(Unprocessable, st)
  ELSE IF req.id.n \notin DOMAIN st THEN Served(TodoNotFound, st)
  ELSE
    LET old == st[req.id.n]
        todo == [old EXCEPT
                   !.title = IF req.f["title"] \in {Absent, PyNone} THEN @
                             ELSE Strip(req.f["title"]),
                   !.description = IF req.f["description"] \in {Absent, PyNone} THEN PyNone
                                   ELSE clean_description(req.f["description"]),
                   !.completed = Flag(req.f["completed"], FALSE),
                   !.favorite = Flag(req.f["favorite"], FALSE)]
    IN  Served(Response(200, TodoBody(todo)), [st EXCEPT ![req.id.n] = todo])

\* update_todo of main.py: "Only update provided fields" of the row it loaded
service_update_todo(st, req) ==
  IF ~PathIdAccepted(req.id) \/ ~TodoUpdateAccepted(req.f) THEN Served(Unprocessable, st)
  ELSE IF req.id.n \notin DOMAIN st THEN Served(TodoNotFound, st)
  ELSE
    LET old == st[req.id.n]
        todo == [old EXCEPT
                   !.title = IF req.f["title"] \in {Absent, PyNone} THEN @
                             ELSE Strip(req.f["title"]),
                   !.description = IF req.f["description"] \in {Absent, PyNone} THEN @
                                   ELSE clean_description(req.f["description"]),
                   !.completed = Flag(req.f["completed"], @),
                   !.favorite = Flag(req.f["favorite"], @)]
    IN  Served(Response(200, TodoBody(todo)), [st EXCEPT ![req.id.n] = todo])

\* delete_todo of main.py
service_delete_todo(st, req) ==
  IF ~PathIdAccepted(req.id) THEN Served(Unprocessable, st)
  ELSE IF req.id.n \notin DOMAIN st THEN Served(TodoNotFound, st)
  ELSE Served(Response(204, NoBody), [i \in DOMAIN st \ {req.id.n} |-> st[i]])

\* the route of main.py a request reaches
Service(st, req) ==
  CASE req.method = "POST" -> service_create_todo(st, req)
    [] req.method = "GET" /\ req.route = "/todos" -> service_get_all_todos(st, req)
    [] req.method = "GET" /\ req.route = "/todos/{id}" -> service_get_todo(st, req)
    [] req.method = "PUT" -> service_update_todo(st, req)
    [] req.method = "DELETE" -> service_delete_todo(st, req)

\* ------------------------------------------------------------------ inputs
NonNumericText == PyStr(0, 3, 0)

TitleInputs ==
  {Absent, PyInt(5), PyStr(0, 0, 0), PyStr(2, 0, 0), PyStr(2, 1, 2),
   PyStr(1, TitleMax, 1), PyStr(0, TitleMax + 1, 0)}

DescriptionInputs ==
  {Absent, PyInt(5), PyStr(2, 0, 0), PyStr(1, 1, 1), PyStr(0, DescriptionMax + 1, 0)}

CompletedInputs == {Absent, PyBool(TRUE), PyBool(FALSE), NonNumericText}

FavoriteInputs == {Absent, PyBool(TRUE)}

IdInputs == {Absent, PyInt(0), NonNumericText} \cup {PyInt(i) : i \in 1..(MaxTodos + 1)}

PageInputs == {Absent, PyInt(1), NonNumericText}

Dict(id, title, description, completed, favorite, skip, limit) ==
  [dict |-> TRUE,
   f |-> [k \in Keys |->
            CASE k = "todo_id" -> id
              [] k = "title" -> title
              [] k = "description" -> description
              [] k = "completed" -> completed
              [] k = "favorite" -> favorite
              [] k = "skip" -> skip
              [] k = "limit" -> limit]]

\* an arguments value that is no mapping (None, a list, a string)
NotADict == [dict |-> FALSE, f |-> NoFields]

CreateArguments ==
  {Dict(Absent, t, d, c, fv, Absent, Absent) :
     t \in TitleInputs, d \in DescriptionInputs, c \in CompletedInputs, fv \in FavoriteInputs}

ListArguments ==
  {Dict(Absent, Absent, Absent, c, Absent, sk, lm) :
     c \in CompletedInputs, sk \in PageInputs, lm \in PageInputs}

UpdateArguments ==
  {Dict(i, t, d, c, fv, Absent, Absent) :
     i \in IdInputs, t \in TitleInputs, d \in DescriptionInputs,
     c \in CompletedInputs, fv \in FavoriteInputs}

MarkArguments ==
  {Dict(i, t, Absent, c, Absent, Absent, Absent) :
     i \in IdInputs, t \in {Absent, PyStr(2, 0, 0), PyStr(2, 1, 2)},
     c \in {Absent, PyBool(TRUE), PyBool(FALSE)}}

UnknownToolName == "archive_todo"

ArgumentsFor(tool_name) ==
  {NotADict} \cup
    CASE tool_name = "create_todo" -> CreateArguments
      [] tool_name = "list_todos" -> ListArguments
      [] tool_name = "update_todo" -> UpdateArguments
      [] tool_name \in {"mark_todo_complete", "mark_todo_incomplete"} -> MarkArguments
      [] OTHER -> {Dict(i, Absent, Absent, Absent, Absent, Absent, Absent) : i \in IdInputs}

\* Responses the handlers of main.py do not give to the request at hand: the
\* 500 of its middleware, and the answers of whatever else listens on the port.
OtherResponses ==
  {Response(200, TodoBody(Todo(1, PyStr(0, 1, 0), PyNone, FALSE, FALSE))),
   Response(201, TodoBody(Todo(1, PyStr(0, 1, 0), PyNone, FALSE, FALSE))),
   Response(200, NoBody),
   Response(204, NoBody),
   Response(404, DetailBody("Not Found")),
   Response(422, DetailBody("upstream detail")),
   Response(500, DetailBody("Internal server error"))}

\* ------------------------------------------- the metrics aggregator (main.py)
\* An endpoint key is f"{method} {endpoint}".  GET /metrics is served by
\* get_metrics, the other key stands for the endpoints of the CRUD handlers.
MetricsKey == "GET /metrics"

EndpointKeys == {"POST /todos", MetricsKey}

\* status codes the handlers answer with: get_metrics 200, create_todo 201 or 422
StatusCodes == {200, 201, 422}

\* what "await call_next(request)" ends with for a CRUD handler: a response, or
\* an exception no handler caught (the database session failing, say)
HandlerOutcome(status) == [k |-> "status", status |-> status]

HandlerRaised == [k |-> "raise"]

NotHandled == [k |-> "none"]

\* mutant: the count is stored without reading the count before
Increment_Overwriting(d, key) == [d EXCEPT ![key] = 1]

\* d[key] += 1 on a defaultdict(int)
Increment(d, key) == [d EXCEPT ![key] = @ + 1]

\* the error_info of record_error: the n-th error recorded, with its endpoint
\* key; the type of the exception and its traceback are part of the entry
ErrorInfo(n, key) == [n |-> n, key |-> key, error_type |-> TRUE, traceback |-> TRUE]

\* mutant: the entry evicted is the newest
record_error_EvictingNewest(errors, error_info) ==
  LET appended == Append(errors, error_info)
  IN  IF Len(appended) > ErrorLogMax THEN SubSeq(appended, 1, ErrorLogMax) ELSE appended

\* record_error: append, then "if len(self.recent_errors) > 100: pop(0)"
record_error(errors, error_info) ==
  LET appended == Append(errors, error_info)
  IN  IF Len(appended) > ErrorLogMax THEN Tail(appended) ELSE appended

RECURSIVE SumSeq(_)
SumSeq(seq) == IF seq = <<>> THEN 0 ELSE Head(seq) + SumSeq(Tail(seq))

\* the entry of avg_timings for a list of timings; avg_ms is sum / count
NoTimings == [count |-> 0, sum |-> 0, min_ms |-> 0, max_ms |-> 0]

TimingStats(timings) ==
  IF timings = <<>> THEN NoTimings
  ELSE LET values == {timings[i] : i \in DOMAIN timings}
       IN  [count |-> Len(timings), sum |-> SumSeq(timings),
            min_ms |-> CHOOSE x \in values : \A y \in values : x <= y,
            max_ms |-> CHOOSE x \in values : \A y \in values : x >= y]

\* the keys a defaultdict holds
KeysOf(d, empty) == {k \in DOMAIN d : d[k] /= empty}

\* the dict get_stats builds, field by field; error_rate is rate_num / rate_den.
\* iter_keys and pending are the state of its loop over endpoint_timings.items().
NoStats ==
  [iter_keys |-> {}, pending |-> {},
   response_times |-> [k \in EndpointKeys |-> NoTimings],
   total_requests |-> 0, total_errors |-> 0, rate_num |-> 0, rate_den |-> 1,
   endpoint_stats |-> [k \in EndpointKeys |-> 0],
   status_codes |-> [c \in StatusCodes |-> 0],
   recent_errors |-> <<>>]

\* a request in the middleware
Requests == 1..MaxRequests

\* what of a fault a log event or a response carries: str(e), type(e).__name__,
\* traceback.format_exc()
Diagnostics(message, error_type, trace) ==
  [message |-> message, error_type |-> error_type, traceback |-> trace]

NoDiagnostics == Diagnostics(FALSE, FALSE, FALSE)

\* a structured log event with its request_id
Event(event, request_id, diag) == [event |-> event, request_id |-> request_id, diag |-> diag]

\* the response the middleware returns: status, X-Request-ID, and what its
\* content tells of a fault
Reply(status, request_id, diag) == [status |-> status, request_id |-> request_id, diag |-> diag]

NoReply == Reply(0, 0, NoDiagnostics)

\* the request is not inside get_stats: it holds no dict of statistics
NoFrame == [k |-> "none"]

NoReq ==
  [pc |-> "idle", key |-> "none", out |-> NotHandled, stats |-> NoFrame,
   id |-> 0, events |-> <<>>, resp |-> NoReply]

\* the try branch of log_requests after record_request: "Request completed" is
\* logged, the headers are set, the response leaves the server
Completed(rq) ==
  [rq EXCEPT !.pc = "done", !.stats = NoFrame,
             !.events = Append(@, Event("completed", rq.id, NoDiagnostics)),
             !.resp = Reply(rq.out.status, rq.id, NoDiagnostics)]

Failed500_Unlogged(rq) ==
  [rq EXCEPT !.pc = "done",
             !.resp = Reply(500, rq.id, Diagnostics(TRUE, FALSE, FALSE))]

\* the except branch of log_requests after record_error: "Request failed" is
\* logged with error, error_type and traceback, and the JSONResponse with
\* status 500 carries "Internal server error", the request_id and str(e)
Failed500(rq) ==
  [rq EXCEPT !.pc = "done",
             !.events = Append(@, Event("failed", rq.id, Diagnostics(TRUE, TRUE, TRUE))),
             !.resp = Reply(500, rq.id, Diagnostics(TRUE, FALSE, FALSE))]

\* ------------------------------------------------------------------- state
VARIABLES
  state,      \* "Idle", "Received", "Validated", "Dispatched", "Succeeded", "Failed"
  tool,       \* tool_name of the invocation
  arguments,  \* arguments of the invocation
  request,    \* the HTTP request the handler built
  outcome,    \* what the transport call ended with
  answered,   \* who ended it: "service" (main.py), "transport" (exception), "other"
  result,     \* the envelope returned
  calls,      \* transport calls issued by the invocation
  store,      \* the records of the service, by id
  \* the Metrics object of main.py
  request_count,
  error_count,
  endpoint_counts,     \* by endpoint key; 0: the key is not in the dict
  endpoint_timings,    \* by endpoint key; <<>>: the key is not in the dict
  status_code_counts,  \* by status code; 0: the key is not in the dict
  recent_errors,
  \* the requests in the middleware of main.py
  reqs,         \* by request: where it is, its endpoint key, outcome and stats
  loop,         \* the request whose record_request the event loop is in, or 0
  error_calls,  \* calls of record_error so far
  peak          \* most requests that were in flight at once

avars == <<state, tool, arguments, request, outcome, answered, result, calls, store>>

mvars ==
  <<request_count, error_count, endpoint_counts, endpoint_timings, status_code_counts,
    recent_errors, reqs, loop, error_calls, peak>>

vars == <<avars, mvars>>

NoRequest == [method |-> "none"]
NoOutcome == [k |-> "none"]
NoResult == [pending |-> TRUE]

Init ==
  /\ state = "Idle"
  /\ tool = "none"
  /\ arguments = NotADict
  /\ request = NoRequest
  /\ outcome = NoOutcome
  /\ answered = "none"
  /\ result = NoResult
  /\ calls = 0
  /\ store = [i \in {} |-> Absent]
  /\ request_count = 0
  /\ error_count = 0
  /\ endpoint_counts = [k \in EndpointKeys |-> 0]
  /\ endpoint_timings = [k \in EndpointKeys |-> <<>>]
  /\ status_code_counts = [c \in StatusCodes |-> 0]
  /\ recent_errors = <<>>
  /\ reqs = [r \in Requests |-> NoReq]
  /\ loop = 0
  /\ error_calls = 0
  /\ peak = 0

\* a caller invokes a tool: _call_tool(tool_name, arguments) is entered
CallTool(tool_name, a) ==
  /\ state = "Idle"
  /\ state' = "Received"
  /\ tool' = tool_name
  /\ arguments' = a
  /\ UNCHANGED <<request, outcome, answered, result, calls, store>>
  /\ UNCHANGED mvars

\* the handler runs up to its transport call, or returns an envelope before it
Validate ==
  /\ state = "Received"
  /\ LET h == call_tool_pre(tool, arguments)
     IN  IF h.k = "send"
           THEN /\ state' = "Validated"
                /\ request' = h.req
                /\ UNCHANGED result
           ELSE /\ state' = "Failed"
                /\ result' = h.env
                /\ UNCHANGED request
  /\ UNCHANGED <<tool, arguments, outcome, answered, calls, store>>
  /\ UNCHANGED mvars

\* the storage has not assigned an id beyond the model's bound
InBounds(st) == \A i \in DOMAIN st : i <= MaxTodos

\* mutant: the request is issued twice
Dispatch_Twice ==
  /\ state = "Validated"
  /\ state' = "Dispatched"
  /\ calls' = calls + 2
  /\ UNCHANGED <<tool, arguments, request, outcome, answered, result, store>>
  /\ UNCHANGED mvars

\* await self.client.<verb>(...): the request is issued, the handler waits
Dispatch ==
  /\ state = "Validated"
  /\ state' = "Dispatched"
  /\ calls' = calls + 1
  /\ UNCHANGED <<tool, arguments, request, outcome, answered, result, store>>
  /\ UNCHANGED mvars

\* mutant: a call that hits the timeout is issued again
Complete_ReissueOnTimeout(out, by, st) ==
  /\ state = "Dispatched"
  /\ outcome' = out
  /\ answered' = by
  /\ store' = st
  /\ result' = IF out.k = "timeout" THEN result ELSE call_tool_post(tool, request, out)
  /\ state' = IF out.k = "timeout" THEN "Validated"
              ELSE IF "success" \in DOMAIN result' THEN "Succeeded" ELSE "Failed"
  /\ UNCHANGED <<tool, arguments, request, calls>>
  /\ UNCHANGED mvars

\* the await ends with outcome out, the service's records being st by then, and
\* the handler maps the outcome to the envelope it returns
Complete(out, by, st) ==
  /\ state = "Dispatched"
  /\ outcome' = out
  /\ answered' = by
  /\ store' = st
  /\ result' = call_tool_post(tool, request, out)
  /\ state' = IF "success" \in DOMAIN result' THEN "Succeeded" ELSE "Failed"
  /\ UNCHANGED <<tool, arguments, request, calls>>
  /\ UNCHANGED mvars

\* the request reached main.py and its answer came back
ServiceAnswered ==
  /\ state = "Dispatched"
  /\ LET s == Service(store, request)
     IN  /\ InBounds(s.store)
         /\ Complete(s.resp, "service", s.store)

\* the transport call raised; on a timeout the service may have handled the
\* request all the same
Raised(exc, handled) ==
  /\ state = "Dispatched"
  /\ LET s == Service(store, request)
     IN  /\ handled => exc.k = "timeout" /\ InBounds(s.store)
         /\ Complete(exc, "transport", IF handled THEN s.store ELSE store)

\* the transport call was answered by something else than a handler of main.py
Answered(resp) == Complete(resp, "other", store)

\* the envelope is handed to the caller; the server waits for the next call
Finish ==
  /\ state \in {"Succeeded", "Failed"}
  /\ state' = "Idle"
  /\ tool' = "none"
  /\ arguments' = NotADict
  /\ request' = NoRequest
  /\ outcome' = NoOutcome
  /\ answered' = "none"
  /\ result' = NoResult
  /\ calls' = 0
  /\ UNCHANGED store
  /\ UNCHANGED mvars

\* some caller invokes some tool with some arguments
Invoke ==
  /\ state = "Idle"
  /\ \E tool_name \in ToolNames \cup {UnknownToolName} :
       \E a \in ArgumentsFor(tool_name) : CallTool(tool_name, a)

\* the transport call ends in one of the exceptions
TransportRaises ==
  /\ state = "Dispatched"
  /\ \E exc \in {[k |-> "timeout"], [k |-> "connect"], [k |-> "error"]} : \E handled \in BOOLEAN : Raised(exc, handled)

\* the transport call ends with one of the other responses
OtherAnswers ==
  /\ state = "Dispatched"
  /\ \E resp \in OtherResponses : Answered(resp)

Next ==
  \/ Invoke
  \/ Validate
  \/ Dispatch
  \/ ServiceAnswered
  \/ TransportRaises
  \/ OtherAnswers
  \/ Finish

Spec == Init /\ [][Next]_vars

\* The event loop runs a handler that can take a step, and the client's timeout
\* bounds every transport call: it is answered, or it raises (TIMEOUT at the
\* latest); nothing obliges a caller to invoke a tool.
FairSpec ==
  /\ Spec
  /\ WF_vars(Validate)
  /\ WF_vars(Dispatch)
  /\ WF_vars(ServiceAnswered \/ TransportRaises \/ OtherAnswers)
  /\ WF_vars(Finish)

\* ------------------------------------------ the middleware and the metrics
\* requests between "Request received" and the return of the middleware
InMiddleware(rs) == {r \in Requests : rs[r].pc \notin {"idle", "done"}}

\* log_requests up to "await call_next(request)": the request_id is made from
\* the clock, "Request received" is logged; it runs on the event loop
Receive(r, key, now) ==
  /\ loop = 0
  /\ reqs[r].pc = "idle"
  /\ IF r = 1 THEN TRUE ELSE reqs[r - 1].pc /= "idle"
  /\ reqs' = [reqs EXCEPT ![r].pc = "awaiting", ![r].key = key, ![r].id = now,
                          ![r].events = <<Event("received", now, NoDiagnostics)>>]
  /\ peak' = IF Cardinality(InMiddleware(reqs')) > peak
               THEN Cardinality(InMiddleware(reqs')) ELSE peak
  /\ UNCHANGED <<request_count, error_count, endpoint_counts, endpoint_timings,
                 status_code_counts, recent_errors, loop, error_calls>>
  /\ UNCHANGED avars

\* a step of a request that changes nothing but the request
RequestStep(r, at, next, out, stats) ==
  /\ reqs[r].pc = at
  /\ reqs' = [reqs EXCEPT ![r].pc = next, ![r].out = out, ![r].stats = stats]
  /\ UNCHANGED <<request_count, error_count, endpoint_counts, endpoint_timings,
                 status_code_counts, recent_errors, loop, error_calls, peak>>
  /\ UNCHANGED avars

\* a CRUD handler (a def, run in a worker thread) returns or raises
HandlerReturns(r, out) ==
  /\ reqs[r].key /= MetricsKey
  /\ RequestStep(r, "awaiting", "handled", out, NoFrame)

\* a statement of get_stats that stores stats as the dict built so far;
\* get_metrics is a def, so it runs in a worker thread, next to the event loop
GetStatsStep(r, at, next, stats) ==
  /\ reqs[r].key = MetricsKey
  /\ RequestStep(r, at, next, NotHandled, stats)

\* "for endpoint, timings in self.endpoint_timings.items()": the iterator
GsIter(r) ==
  LET present == KeysOf(endpoint_timings, <<>>)
  IN  GetStatsStep(r, "awaiting", "gs_next",
                   [NoStats EXCEPT !.iter_keys = present, !.pending = present])

\* the iterator was advanced after the dict had changed size: RuntimeError
GsNextRaises(r) ==
  /\ reqs[r].key = MetricsKey
  /\ reqs[r].pc = "gs_next"
  /\ KeysOf(endpoint_timings, <<>>) /= reqs[r].stats.iter_keys
  /\ RequestStep(r, "gs_next", "handled", HandlerRaised, NoFrame)

\* one round of the loop: the entry of avg_timings for the next key
GsNextKey(r, key) ==
  /\ reqs[r].pc = "gs_next"
  /\ KeysOf(endpoint_timings, <<>>) = reqs[r].stats.iter_keys
  /\ key \in reqs[r].stats.pending
  /\ GetStatsStep(r, "gs_next", "gs_next",
                  [reqs[r].stats EXCEPT !.pending = @ \ {key},
                                        !.response_times[key] = TimingStats(endpoint_timings[key])])

\* the loop ends
GsNextStops(r) ==
  /\ reqs[r].pc = "gs_next"
  /\ KeysOf(endpoint_timings, <<>>) = reqs[r].stats.iter_keys
  /\ reqs[r].stats.pending = {}
  /\ GetStatsStep(r, "gs_next", "gs_total", reqs[r].stats)

\* 'total_requests': self.request_count
GsTotalRequests(r) ==
  GetStatsStep(r, "gs_total", "gs_errors", [reqs[r].stats EXCEPT !.total_requests = request_count])

\* 'total_errors': self.error_count
GsTotalErrors(r) ==
  GetStatsStep(r, "gs_errors", "gs_rate_num", [reqs[r].stats EXCEPT !.total_errors = error_count])

\* 'error_rate': self.error_count / max(self.request_count, 1), the dividend
GsRateDividend(r) ==
  GetStatsStep(r, "gs_rate_num", "gs_rate_den", [reqs[r].stats EXCEPT !.rate_num = error_count])

\* ... and the divisor
GsRateDivisor(r) ==
  GetStatsStep(r, "gs_rate_den", "gs_endpoints",
               [reqs[r].stats EXCEPT !.rate_den = IF request_count > 1 THEN request_count ELSE 1])

\* 'endpoint_stats': dict(self.endpoint_counts)
GsEndpointStats(r) ==
  GetStatsStep(r, "gs_endpoints", "gs_status", [reqs[r].stats EXCEPT !.endpoint_stats = endpoint_counts])

\* 'status_codes': dict(self.status_code_counts)
GsStatusCodes(r) ==
  GetStatsStep(r, "gs_status", "gs_recent", [reqs[r].stats EXCEPT !.status_codes = status_code_counts])

\* 'recent_errors': self.recent_errors[-10:], and get_metrics returns: 200
GsRecentErrors(r) ==
  /\ reqs[r].key = MetricsKey
  /\ RequestStep(r, "gs_recent", "handled", HandlerOutcome(200),
                 [reqs[r].stats EXCEPT
                    !.recent_errors =
                      SubSeq(recent_errors,
                             IF Len(recent_errors) > RecentShown
                               THEN Len(recent_errors) - RecentShown + 1 ELSE 1,
                             Len(recent_errors))])

\* call_next returned a response: the event loop enters record_request.
\* self.request_count += 1
RrRequestCount(r) ==
  /\ loop = 0
  /\ reqs[r].pc = "handled"
  /\ reqs[r].out.k = "status"
  /\ request_count' = request_count + 1
  /\ reqs' = [reqs EXCEPT ![r].pc = "rr_endpoint"]
  /\ loop' = r
  /\ UNCHANGED <<error_count, endpoint_counts, endpoint_timings, status_code_counts,
                 recent_errors, error_calls, peak>>
  /\ UNCHANGED avars

\* self.endpoint_counts[key] += 1
RrEndpointCount(r) ==
  /\ reqs[r].pc = "rr_endpoint"
  /\ endpoint_counts' = Increment(endpoint_counts, reqs[r].key)
  /\ reqs' = [reqs EXCEPT ![r].pc = "rr_timing"]
  /\ UNCHANGED <<request_count, error_count, endpoint_timings, status_code_counts,
                 recent_errors, loop, error_calls, peak>>
  /\ UNCHANGED avars

\* self.endpoint_timings[key].append(duration)
RrTiming(r, duration) ==
  /\ reqs[r].pc = "rr_timing"
  /\ endpoint_timings' = [endpoint_timings EXCEPT ![reqs[r].key] = Append(@, duration)]
  /\ reqs' = [reqs EXCEPT ![r].pc = "rr_status"]
  /\ UNCHANGED <<request_count, error_count, endpoint_counts, status_code_counts,
                 recent_errors, loop, error_calls, peak>>
  /\ UNCHANGED avars

\* self.status_code_counts[status_code] += 1
RrStatusCount(r) ==
  /\ reqs[r].pc = "rr_status"
  /\ status_code_counts' = Increment(status_code_counts, reqs[r].out.status)
  /\ reqs' = [reqs EXCEPT ![r].pc = "rr_error"]
  /\ UNCHANGED <<request_count, error_count, endpoint_counts, endpoint_timings,
                 recent_errors, loop, error_calls, peak>>
  /\ UNCHANGED avars

\* mutant: a response below 400 resets the error count
RrErrorCount_Resetting(r) ==
  /\ reqs[r].pc = "rr_error"
  /\ error_count' = IF reqs[r].out.status >= 400 THEN error_count + 1 ELSE 0
  /\ reqs' = [reqs EXCEPT ![r] = Completed(reqs[r])]
  /\ loop' = 0
  /\ UNCHANGED <<request_count, endpoint_counts, endpoint_timings, status_code_counts,
                 recent_errors, error_calls, peak>>
  /\ UNCHANGED avars

\* mutant: only a status of 500 and above counts as an error
RrErrorCount_From500(r) ==
  /\ reqs[r].pc = "rr_error"
  /\ error_count' = IF reqs[r].out.status >= 500 THEN error_count + 1 ELSE error_count
  /\ reqs' = [reqs EXCEPT ![r] = Completed(reqs[r])]
  /\ loop' = 0
  /\ UNCHANGED <<request_count, endpoint_counts, endpoint_timings, status_code_counts,
                 recent_errors, error_calls, peak>>
  /\ UNCHANGED avars

\* "if status_code >= 400: self.error_count += 1"; the middleware then logs
\* "Request completed" and returns the response, which leaves the server
RrErrorCount(r) ==
  /\ reqs[r].pc = "rr_error"
  /\ error_count' = IF reqs[r].out.status >= 400 THEN error_count + 1 ELSE error_count
  /\ reqs' = [reqs EXCEPT ![r] = Completed(reqs[r])]
  /\ loop' = 0
  /\ UNCHANGED <<request_count, endpoint_counts, endpoint_timings, status_code_counts,
                 recent_errors, error_calls, peak>>
  /\ UNCHANGED avars

\* mutant: record_error counts the fault as an error
RequestFailed_CountingError(r) ==
  /\ loop = 0
  /\ reqs[r].pc = "handled"
  /\ reqs[r].out = HandlerRaised
  /\ recent_errors' = record_error(recent_errors, ErrorInfo(error_calls + 1, reqs[r].key))
  /\ error_calls' = error_calls + 1
  /\ error_count' = error_count + 1
  /\ reqs' = [reqs EXCEPT ![r] = Failed500(reqs[r])]
  /\ UNCHANGED <<request_count, endpoint_counts, endpoint_timings,
                 status_code_counts, loop, peak>>
  /\ UNCHANGED avars

\* call_next raised: the except clause of log_requests calls record_error, logs
\* "Request failed" and returns the 500 response
RequestFailed(r) ==
  /\ loop = 0
  /\ reqs[r].pc = "handled"
  /\ reqs[r].out = HandlerRaised
  /\ recent_errors' = record_error(recent_errors, ErrorInfo(error_calls + 1, reqs[r].key))
  /\ error_calls' = error_calls + 1
  /\ reqs' = [reqs EXCEPT ![r] = Failed500(reqs[r])]
  /\ UNCHANGED <<request_count, error_count, endpoint_counts, endpoint_timings,
                 status_code_counts, loop, peak>>
  /\ UNCHANGED avars

Arrive ==
  /\ loop = 0
  /\ \E r \in Requests :
       \E key \in EndpointKeys :
         Receive(r, key, IF r = 1 THEN 1 ELSE reqs[r - 1].id + 1)

HandlerEnds ==
  \E r \in Requests :
    \E out \in {HandlerOutcome(201), HandlerOutcome(422), HandlerRaised} : HandlerReturns(r, out)

GetStats ==
  \E r \in Requests :
    \/ GsIter(r)
    \/ GsNextRaises(r)
    \/ \E key \in EndpointKeys : GsNextKey(r, key)
    \/ GsNextStops(r)
    \/ GsTotalRequests(r)
    \/ GsTotalErrors(r)
    \/ GsRateDividend(r)
    \/ GsRateDivisor(r)
    \/ GsEndpointStats(r)
    \/ GsStatusCodes(r)
    \/ GsRecentErrors(r)

RecordRequest ==
  \E r \in Requests :
    \/ RrRequestCount(r)
    \/ RrEndpointCount(r)
    \/ \E duration \in {1, 2} : RrTiming(r, duration)
    \/ RrStatusCount(r)
    \/ RrErrorCount(r)

RecordError == \E r \in Requests : RequestFailed(r)

MetricsNext ==
  \/ Arrive
  \/ HandlerEnds
  \/ GetStats
  \/ RecordRequest
  \/ RecordError

\* the server of main.py under up to MaxRequests requests; the request ids do
\* not enter the metrics, and here every request finds the clock advanced
MetricsSpec == Init /\ [][MetricsNext]_vars

\* a request arrives, whatever the clock shows.  request_id is
\* f"req_{int(time.time() * 1000000)}", kept as the microsecond counted from
\* the one of the first request: the value the request before it read, or a
\* later one
ArriveAnyTime ==
  /\ loop = 0
  /\ \E r \in Requests :
       \E key \in EndpointKeys :
         \E now \in IF r = 1 THEN {1} ELSE {reqs[r - 1].id, reqs[r - 1].id + 1} :
           Receive(r, key, now)

MiddlewareNext ==
  \/ ArriveAnyTime
  \/ HandlerEnds
  \/ GetStats
  \/ RecordRequest
  \/ RecordError

\* the middleware of main.py with the clock of its request ids left free
MiddlewareSpec == Init /\ [][MiddlewareNext]_vars

\* the response was sent: the request is gone, the next one can take its place
Forget(r) ==
  /\ reqs[r].pc = "done"
  /\ reqs' = [reqs EXCEPT ![r] = NoReq]
  /\ UNCHANGED <<request_count, error_count, endpoint_counts, endpoint_timings,
                 status_code_counts, recent_errors, loop, error_calls, peak>>
  /\ UNCHANGED avars

\* requests whose handler raises, one after the other
FaultArrives == error_calls < MaxErrors /\ Receive(1, "POST /todos", 1)

FaultRaised == HandlerReturns(1, HandlerRaised)

FaultRecorded == RequestFailed(1)

FaultForgotten == Forget(1)

ErrorLogNext ==
  \/ FaultArrives
  \/ FaultRaised
  \/ FaultRecorded
  \/ FaultForgotten

\* the error log under a run of failing requests
ErrorLogSpec == Init /\ [][ErrorLogNext]_vars

\* ------------------------------------------- the declared argument schemas
\* inputSchema of the tools of _list_tools: the declared type of a property
\* ("none": not declared) and the required properties
SchemaType(tool_name, k) ==
  CASE k = "todo_id" /\ tool_name \notin {"create_todo", "list_todos"} -> "integer"
    [] k \in {"title", "description"} /\ tool_name \in {"create_todo", "update_todo"} -> "string"
    [] k = "favorite" /\ tool_name \in {"create_todo", "update_todo"} -> "boolean"
    [] k = "completed" /\ tool_name \in {"create_todo", "update_todo", "list_todos"} -> "boolean"
    [] k \in {"skip", "limit"} /\ tool_name = "list_todos" -> "integer"
    [] OTHER -> "none"

SchemaRequired(tool_name) ==
  CASE tool_name = "create_todo" -> {"title"}
    [] tool_name = "list_todos" -> {}
    [] OTHER -> {"todo_id"}

\* a value is of a JSON schema type
OfType(v, type) ==
  CASE type = "string" -> v.t = "str"
    [] type = "integer" -> v.t = "int"
    [] type = "boolean" -> v.t = "bool"
    [] OTHER -> TRUE

\* the length bounds the schemas state: title 1-200 chars, description max 1000
OverLength(tool_name, k, v) ==
  /\ SchemaType(tool_name, k) = "string"
  /\ v.t = "str"
  /\ \/ k = "title" /\ Len_(Strip(v)) > TitleMax
     \/ k = "description" /\ Len_(Strip(v)) > DescriptionMax

SchemaViolated(tool_name, a) ==
  \/ ~a.dict
  \/ \E k \in SchemaRequired(tool_name) : a.f[k] = Absent
  \/ \E k \in Keys : a.f[k] /= Absent /\ ~OfType(a.f[k], SchemaType(tool_name, k))
  \/ \E k \in Keys : a.f[k] /= Absent /\ OverLength(tool_name, k, a.f[k])

\* -------------------------------------------------------------- properties
MutableFields == {"title", "description", "completed", "favorite"}

Terminal == state \in {"Succeeded", "Failed"}

Taxonomy ==
  {"validation_error", "not_found", "api_error", "timeout_error", "connection_error",
   "invalid_tool", "internal_error"}

\* the invocation is past _call_tool's entry
Started == state \notin {"Idle", "Received"}

\* the arguments carry an id and none of the four mutable fields
IdOnly(a) ==
  /\ a.dict
  /\ a.f["todo_id"] /= Absent
  /\ \A k \in MutableFields : a.f[k] = Absent

\* the title given is a string that is empty or only whitespace
BlankTitle(a) ==
  /\ a.dict
  /\ a.f["title"].t = "str"
  /\ a.f["title"].core = 0

\* C1: an update_todo invocation that carries an id and none of title,
\* description, completed, favorite ends Failed with kind validation_error and
\* without a transport call, whether the id is in the store or not.
C1_UpdateWithoutFields ==
  (tool = "update_todo" /\ IdOnly(arguments) /\ Started)
    => (state = "Failed" /\ result.type = "validation_error" /\ calls = 0)

\* C1 witness: update_todo with the id of a stored record and no field was rejected
C1_Witness ==
  /\ state = "Failed"
  /\ tool = "update_todo"
  /\ IdOnly(arguments)
  /\ arguments.f["todo_id"] = PyInt(1)
  /\ 1 \in DOMAIN store

\* C2: create_todo and update_todo with a title that is empty or only
\* whitespace end Failed with kind validation_error and without a transport call.
C2_BlankTitleRejected ==
  (tool \in {"create_todo", "update_todo"} /\ BlankTitle(arguments) /\ Started)
    => (state = "Failed" /\ result.type = "validation_error" /\ calls = 0)

\* C3: an invocation of one of the 7 tools whose arguments violate the tool's
\* declared schema (required property missing, wrong type, string over its
\* length bound) never reaches Validated or Dispatched and issues no transport call.
C3_SchemaCheckedBeforeTransport ==
  (tool \in ToolNames /\ SchemaViolated(tool, arguments))
    => (state \notin {"Validated", "Dispatched"} /\ calls = 0)

\* C4: an invocation whose tool name is not in the catalog ends Failed with kind
\* invalid_tool and without a transport call, whatever its arguments.
C4_UnknownToolIsInvalidTool ==
  (tool \notin ToolNames /\ Started)
    => (state = "Failed" /\ result.type = "invalid_tool" /\ calls = 0)

\* C4 witness: an unknown tool name was rejected, its arguments not even a mapping
C4_Witness ==
  /\ state = "Failed"
  /\ tool = UnknownToolName
  /\ ~arguments.dict
  /\ result.type = "invalid_tool"

\* C5: the kind of every error envelope is one of the seven taxonomy values.
C5_KindInTaxonomy == state = "Failed" => result.type \in Taxonomy

\* the shapes of the uniform envelope
SuccessShape(env) ==
  /\ "success" \in DOMAIN env
  /\ env.success = TRUE
  /\ "error" \notin DOMAIN env
  /\ "type" \notin DOMAIN env

ErrorShape(env) ==
  /\ "error" \in DOMAIN env
  /\ "type" \in DOMAIN env
  /\ "success" \notin DOMAIN env

\* C6: every tool call returns one envelope that has either the success shape
\* or the error shape, never both and never neither, and no exception leaves
\* _call_tool: none before the transport call, none after it.
C6_ExactlyOneEnvelope ==
  /\ state = "Received" => call_tool_pre(tool, arguments).k \in {"return", "send"}
  /\ state = "Succeeded" => SuccessShape(result) /\ ~ErrorShape(result)
  /\ state = "Failed" => ErrorShape(result) /\ ~SuccessShape(result)
  /\ ~Terminal => result = NoResult

\* C6 witness: the transport call raised an exception that is neither a timeout
\* nor a connection failure, and the call returned an error envelope
C6_Witness ==
  /\ state = "Failed"
  /\ outcome = [k |-> "error"]
  /\ ErrorShape(result)

\* an update that supplies at least one mutable field and only valid ones
ValidUpdateFields(a) ==
  /\ \E k \in MutableFields : a.f[k] /= Absent
  /\ a.f["title"] = Absent \/ (a.f["title"].t = "str" /\ a.f["title"].core \in 1..TitleMax)
  /\ a.f["description"] = Absent
       \/ (a.f["description"].t = "str" /\ a.f["description"].core <= DescriptionMax)
  /\ a.f["completed"] = Absent \/ a.f["completed"].t = "bool"
  /\ a.f["favorite"] = Absent \/ a.f["favorite"].t = "bool"

\* get, delete or update (with valid fields) of an integer id that is not stored
AbsentIdCall ==
  /\ tool \in {"get_todo", "delete_todo", "update_todo"}
  /\ arguments.dict
  /\ arguments.f["todo_id"].t = "int"
  /\ arguments.f["todo_id"].n \notin DOMAIN store
  /\ \A k \in {"skip", "limit"} : arguments.f[k] = Absent
  /\ tool = "update_todo" => ValidUpdateFields(arguments)
  /\ tool /= "update_todo" => \A k \in MutableFields : arguments.f[k] = Absent

\* C7: get, delete and update of an integer id that is not in the store
\* (0 included) end with kind not_found, unless the transport call got no
\* answer from the service.
C7_AbsentIdIsNotFound ==
  [][(AbsentIdCall /\ state' \in {"Succeeded", "Failed"} /\ answered' \in {"none", "service"})
       => (state' = "Failed" /\ result'.type = "not_found")]_vars

\* C8: whatever the tool, a 404 response ends in kind not_found.
C8_Status404IsNotFound ==
  (Terminal /\ outcome.k = "response" /\ outcome.status = 404)
    => (state = "Failed" /\ result.type = "not_found")

\* C9: whatever the tool, a 422 response ends in kind validation_error, the
\* message being the upstream detail with nothing put before it.
C9_Status422IsValidationVerbatim ==
  (Terminal /\ outcome.k = "response" /\ outcome.status = 422 /\ outcome.body.k = "detail")
    => /\ state = "Failed"
       /\ result.type = "validation_error"
       /\ result.error = Msg("", Text(outcome.body.detail))

\* C10: whatever the tool, a response with a status in 200..299 ends Succeeded.
C10_Status2xxSucceeds ==
  (Terminal /\ outcome.k = "response" /\ outcome.status \in 200..299) => state = "Succeeded"

\* the transport call ended in the exception of kind k
TransportEndedIn(k) == Terminal /\ outcome.k = k

\* C11: for every tool, a transport call that exceeds its deadline ends in kind
\* timeout_error and one that finds the service unreachable ends in kind
\* connection_error, never in another kind.
C11_TimeoutAndConnectKinds ==
  /\ TransportEndedIn("timeout") => (state = "Failed" /\ result.type = "timeout_error")
  /\ TransportEndedIn("connect") => (state = "Failed" /\ result.type = "connection_error")

\* C11 witness: the service was unreachable for a create_todo call
C11_Witness ==
  /\ state = "Failed"
  /\ tool = "create_todo"
  /\ outcome = [k |-> "connect"]
  /\ result.type = "connection_error"

\* C12: an invocation moves only forward, Received to Validated or Failed,
\* Validated to Dispatched with its one transport call, Dispatched to Succeeded
\* or Failed; it never has issued more than one transport call, and from
\* Succeeded or Failed nothing follows but the end of the invocation.
C12_ForwardOnlyOneCall ==
  [][/\ state = "Idle" => state' = "Received" /\ calls' = 0
     /\ state = "Received" => state' \in {"Validated", "Failed"} /\ calls' = 0
     /\ state = "Validated" => state' = "Dispatched" /\ calls' = 1
     /\ state = "Dispatched" => state' \in {"Succeeded", "Failed"} /\ calls' = calls
     /\ Terminal => state' = "Idle" /\ calls' = 0 /\ store' = store]_vars

\* C12 witness: an invocation ended after one transport call that another
\* status than 2xx, 404 and 422 answered
C12_Witness ==
  /\ state = "Failed"
  /\ calls = 1
  /\ outcome.k = "response"
  /\ outcome.status = 500

\* C13: every invocation under way eventually is Succeeded or Failed, and a
\* transport call that hits the timeout ends the invocation Failed with kind
\* timeout_error, no further transport call being issued.
C13_EveryInvocationEnds ==
  /\ (state \in {"Received", "Validated", "Dispatched"}) ~> Terminal
  /\ [][(state = "Dispatched" /\ outcome'.k = "timeout")
         => (state' = "Failed" /\ result'.type = "timeout_error" /\ calls' = calls)]_vars

\* C13 witness: a get_todo call hit the timeout and ended after its one call
C13_Witness ==
  /\ state = "Failed"
  /\ tool = "get_todo"
  /\ outcome = [k |-> "timeout"]
  /\ result.type = "timeout_error"
  /\ calls = 1

\* what _call_tool does for update_todo on the arguments of the mark tool at
\* hand with completed set to the tool's value, up to the transport call
UpdateCounterpart ==
  call_tool_pre("update_todo", SetCompleted(arguments, tool = "mark_todo_complete"))

\* C14: whatever the arguments, mark_todo_complete and mark_todo_incomplete
\* issue the transport call (or none) and return the envelope, error kind
\* included, that update_todo does for the same arguments with completed set
\* to true, respectively false.
C14_MarkIsUpdate ==
  (tool \in {"mark_todo_complete", "mark_todo_incomplete"} /\ Started) =>
    /\ (state = "Failed" /\ calls = 0) => UpdateCounterpart = Return(result)
    /\ (state /= "Failed" \/ calls = 1) => UpdateCounterpart = Send(request)
    /\ (Terminal /\ calls = 1) => result = call_tool_post("update_todo", request, outcome)

\* the record a successful create_todo or update_todo returned
ReturnedTodo == IF tool = "create_todo" THEN result.todo ELSE result.todo.todo

\* C15: the record a successful create_todo or update_todo stores and returns
\* has title equal to the trimmed title supplied and description equal to the
\* trimmed description supplied, a whitespace-only description included.
C15_TrimmedRoundTrip ==
  (state = "Succeeded" /\ answered = "service" /\ tool \in {"create_todo", "update_todo"}) =>
    \A k \in {"title", "description"} :
      arguments.f[k].t = "str" =>
        /\ ReturnedTodo[k] = Strip(arguments.f[k])
        /\ store[ReturnedTodo.id][k] = Strip(arguments.f[k])

\* the PUT requests at hand: the one the adapter has dispatched, and between
\* invocations any PUT sent to the service directly for a stored id, the empty
\* body among them
UpdateRequests ==
  LET UpdateBodies ==
        {[k \in Keys |->
            CASE k = "title" -> t
              [] k = "description" -> d
              [] k = "completed" -> c
              [] k = "favorite" -> fv
              [] OTHER -> Absent] :
           t \in {Absent, PyNone, PyStr(1, 2, 1)},
           d \in {Absent, PyNone, PyStr(0, 0, 0), PyStr(2, 0, 0), PyStr(1, 2, 1)},
           c \in {Absent, PyBool(TRUE), PyBool(FALSE)},
           fv \in {Absent, PyBool(TRUE), PyBool(FALSE)}}
  IN  IF state = "Dispatched" /\ request.method = "PUT" /\ request.id.t = "int"
        THEN {request}
      ELSE IF state = "Idle"
        THEN {Request("PUT", "/todos/{id}", PyInt(i), f) : i \in DOMAIN store, f \in UpdateBodies}
      ELSE {}

\* C25: an update of a stored record sets the fields of title, description,
\* completed, favorite that the body supplies, leaves the others of the four
\* and created_at as they are, and leaves every other record alone; an empty
\* body changes nothing.
C25_UpdateFrame ==
  \A req \in UpdateRequests :
    LET s == service_update_todo(store, req)
        id == req.id.n
        \* the body supplies a value for the field
        Supplied(v) == v \notin {Absent, PyNone}
        \* the value a supplied field is stored as
        StoredAs(k, v) ==
          CASE k = "title" -> Strip(v)
            [] k = "description" -> clean_description(v)
            [] OTHER -> v.b
    IN  (id \in DOMAIN store /\ s.resp.status = 200) =>
          /\ DOMAIN s.store = DOMAIN store
          /\ \A j \in DOMAIN store \ {id} : s.store[j] = store[j]
          /\ s.store[id].id = id
          /\ s.store[id].created_at = store[id].created_at
          /\ \A k \in MutableFields :
               s.store[id][k] = IF Supplied(req.f[k]) THEN StoredAs(k, req.f[k])
                                ELSE store[id][k]
          /\ s.resp.body = TodoBody(s.store[id])

\* C25 witness: update_todo that supplied completed only has changed a stored
\* record whose description is a text
C25_Witness ==
  /\ state = "Succeeded"
  /\ tool = "update_todo"
  /\ answered = "service"
  /\ \A k \in MutableFields : (arguments.f[k] /= Absent) <=> (k = "completed")
  /\ arguments.f["completed"] = PyBool(TRUE)
  /\ store[1].completed
  /\ store[1].description = PyStr(0, 1, 0)

\* C29: an invocation that ends Failed without a transport call has kind
\* validation_error or invalid_tool; arguments of the wrong type or shape are
\* rejected as validation_error.
C29_LocalFailureKinds ==
  (state = "Failed" /\ calls = 0) => result.type \in {"validation_error", "invalid_tool"}

\* C30: a create_todo or update_todo invocation with well-typed arguments that
\* passes the adapter's validation sends a body the service accepts: the
\* service does not answer it with 422.
C30_AdapterAtLeastAsStrict ==
  LET \* the arguments are a mapping with a string title and description,
      \* boolean flags and an integer id, as far as they are given
      WellTyped(a) ==
        /\ a.dict
        /\ a.f["title"] = Absent \/ a.f["title"].t = "str"
        /\ a.f["description"] = Absent \/ a.f["description"].t = "str"
        /\ a.f["completed"] = Absent \/ a.f["completed"].t = "bool"
        /\ a.f["favorite"] = Absent \/ a.f["favorite"].t = "bool"
        /\ a.f["todo_id"] = Absent \/ a.f["todo_id"].t = "int"
  IN
  (tool \in {"create_todo", "update_todo"} /\ WellTyped(arguments))
    => /\ state = "Validated" =>
            IF tool = "create_todo" THEN TodoCreateAccepted(request.f)
            ELSE PathIdAccepted(request.id) /\ TodoUpdateAccepted(request.f)
       /\ (Terminal /\ answered = "service") => outcome.status /= 422

\* C30 witness: a create_todo whose title has 200 characters between leading
\* and trailing whitespace was accepted by the service
C30_Witness ==
  /\ state = "Succeeded"
  /\ tool = "create_todo"
  /\ answered = "service"
  /\ arguments.f["title"] = PyStr(1, TitleMax, 1)
  /\ outcome.status = 201

\* ------------------------------------------------ properties of the metrics
RECURSIVE SumOver(_, _)
SumOver(d, keys) ==
  IF keys = {} THEN 0
  ELSE LET k == CHOOSE x \in keys : TRUE IN d[k] + SumOver(d, keys \ {k})

\* the requests the middleware has answered
Done == {r \in Requests : reqs[r].pc = "done"}

\* ... those of them whose handler returned a response, all or for one key
DoneServed == {r \in Done : reqs[r].out.k = "status"}

DoneServedAt(key) == {r \in DoneServed : reqs[r].key = key}

\* no request is in the middleware
Quiet == InMiddleware(reqs) = {}

\* C16: when N requests have passed through the middleware, their handlers
\* having returned or raised, the counts of endpoint_stats sum up to N.
C16_EveryRequestCounted ==
  Quiet => SumOver(endpoint_counts, EndpointKeys) = Cardinality(Done)

\* get_stats has returned its dict to request r
StatsReturned(r) ==
  /\ reqs[r].key = MetricsKey
  /\ reqs[r].out = HandlerOutcome(200)
  /\ reqs[r].pc /= "done"

\* C17: in every stats read error_rate is total_errors / total_requests, that
\* is error_rate * total_requests = total_errors, also before any request was
\* recorded (error_rate is rate_num / rate_den).
C17_ErrorRateIsRatio ==
  \A r \in Requests :
    StatsReturned(r) =>
      reqs[r].stats.rate_num * reqs[r].stats.total_requests
        = reqs[r].stats.total_errors * reqs[r].stats.rate_den

\* C18: with the requests that completed, M of them for a key, the count of the
\* key and the number of its timing samples are M and the total request count
\* is the number of all of them, however they were interleaved.
C18_NoLostUpdates ==
  loop = 0 =>
    /\ request_count = Cardinality(DoneServed)
    /\ \A key \in EndpointKeys :
         /\ endpoint_counts[key] = Cardinality(DoneServedAt(key))
         /\ Len(endpoint_timings[key]) = Cardinality(DoneServedAt(key))

\* C18 witness: MaxRequests requests for one key were in flight at once and
\* all completed
C18_Witness ==
  /\ peak = MaxRequests
  /\ DoneServedAt("POST /todos") = Requests
  /\ endpoint_counts["POST /todos"] = MaxRequests
  /\ Len(endpoint_timings["POST /todos"]) = MaxRequests
  /\ request_count = MaxRequests

\* C19: every result of get_stats is a consistent snapshot: its total_requests
\* is the sum of its endpoint_stats, the sum of its status_codes and the sum
\* of the counts of its response_times.
C19_ConsistentSnapshot ==
  \A r \in Requests :
    StatsReturned(r) =>
      /\ reqs[r].stats.total_requests = SumOver(reqs[r].stats.endpoint_stats, EndpointKeys)
      /\ reqs[r].stats.total_requests = SumOver(reqs[r].stats.status_codes, StatusCodes)
      /\ reqs[r].stats.total_requests = SumOver([k \in EndpointKeys |-> reqs[r].stats.response_times[k].count], EndpointKeys)

\* C20: after k calls of record_error the error log holds the min(k, 100) most
\* recent entries in the order they were recorded: never more than 100, and the
\* 101st insert evicts the oldest entry and no other.
C20_ErrorLogKeepsLast100 ==
  LET n == Len(recent_errors)
  IN  /\ n = IF error_calls < ErrorLogMax THEN error_calls ELSE ErrorLogMax
      /\ \A i \in 1..n : recent_errors[i].n = error_calls - n + i

\* C20 witness: the 101st error was recorded and the log starts with the 2nd
C20_Witness ==
  /\ error_calls = ErrorLogMax + 1
  /\ Len(recent_errors) = ErrorLogMax
  /\ recent_errors[1].n = 2
  /\ recent_errors[ErrorLogMax].n = ErrorLogMax + 1

\* C21: in every step of the aggregator the total request count, the total
\* error count, every per-endpoint count and every status-code count stay
\* or grow.
C21_CountersNeverDecrease ==
  [][/\ request_count' >= request_count
     /\ error_count' >= error_count
     /\ \A key \in EndpointKeys : endpoint_counts'[key] >= endpoint_counts[key]
     /\ \A c \in StatusCodes : status_code_counts'[c] >= status_code_counts[c]]_vars

\* C21 witness: a request was recorded as an error, a fault was recorded
C21_Witness ==
  /\ request_count = 1
  /\ error_count = 1
  /\ error_calls = 1
  /\ Quiet

\* C22: in every stats read and for every endpoint key the count of
\* response_times is the count of endpoint_stats, response_times having an
\* entry (a count that is not 0) for just the keys counted at least once.
C22_TimingCountIsEndpointCount ==
  \A r \in Requests :
    StatsReturned(r) =>
      \A key \in EndpointKeys :
        reqs[r].stats.response_times[key].count = reqs[r].stats.endpoint_stats[key]

\* the requests answered with a status of the set codes
DoneWithStatus(codes) == {r \in DoneServed : reqs[r].out.status \in codes}

ErrorCodes == {c \in StatusCodes : c >= 400}

\* C26: each request that completed with status c has added one to the count
\* of c, and one to the error count if c >= 400 and nothing otherwise; the
\* error count is the sum of the counts of the codes >= 400, and it never
\* exceeds the total request count.
C26_StatusAndErrorCounts ==
  /\ error_count <= request_count
  /\ loop = 0 =>
       /\ \A c \in StatusCodes : status_code_counts[c] = Cardinality(DoneWithStatus({c}))
       /\ error_count = Cardinality(DoneWithStatus(ErrorCodes))
       /\ error_count = SumOver(status_code_counts, ErrorCodes)

\* C26 witness: one request completed with 201 and one with 422
C26_Witness ==
  /\ Quiet
  /\ status_code_counts[201] = 1
  /\ status_code_counts[422] = 1
  /\ error_count = 1
  /\ request_count = 2

\* the fields record_request writes
counters ==
  <<request_count, error_count, endpoint_counts, endpoint_timings, status_code_counts>>

\* C28: record_request leaves the error log as it is, record_error leaves the
\* counts and the timing samples as they are, get_stats changes nothing of
\* the aggregator; so a request answered 4xx adds no entry to recent_errors
\* and a request that ends in a fault changes neither count.
C28_Frames ==
  [][/\ (loop /= 0 \/ loop' /= 0) => recent_errors' = recent_errors
     /\ error_calls' /= error_calls => counters' = counters
     /\ (\E r \in Requests :
           /\ reqs[r].key = MetricsKey
           /\ reqs[r].pc \in {"awaiting", "gs_next", "gs_total", "gs_errors", "gs_rate_num",
                               "gs_rate_den", "gs_endpoints", "gs_status", "gs_recent"}
           /\ reqs'[r] /= reqs[r])
          => (counters' = counters /\ recent_errors' = recent_errors)]_vars

\* C28 witness: a request answered 422 and a request that ended in a fault
\* are through: one error counted, one entry in the error log
C28_Witness ==
  /\ Quiet
  /\ DoneWithStatus({422}) /= {}
  /\ Done \ DoneServed /= {}
  /\ request_count = 1
  /\ error_count = 1
  /\ Len(recent_errors) = 1

\* ------------------------------------------- properties of the middleware
Arrived == {r \in Requests : reqs[r].pc /= "idle"}

\* C23: two distinct requests never receive the same correlation id, also when
\* they are in flight together.
C23_DistinctCorrelationIds ==
  \A r1 \in Arrived : \A r2 \in Arrived : r1 /= r2 => reqs[r1].id /= reqs[r2].id

\* C24: the type and the trace of a fault are never given to a caller: the
\* failure response has status 500 and the correlation id and neither of them,
\* and no other response (the statistics of GET /metrics) holds them.
C24_DiagnosticsStayInTheLog ==
  /\ \A r \in Done \ DoneServed :
       /\ reqs[r].resp.status = 500
       /\ reqs[r].resp.request_id = reqs[r].id
       /\ ~reqs[r].resp.diag.error_type
       /\ ~reqs[r].resp.diag.traceback
  /\ \A r \in Requests :
       StatsReturned(r) =>
         \A i \in DOMAIN reqs[r].stats.recent_errors :
           /\ ~reqs[r].stats.recent_errors[i].error_type
           /\ ~reqs[r].stats.recent_errors[i].traceback

EventNames(r) == [i \in DOMAIN reqs[r].events |-> reqs[r].events[i].event]

\* C27: a request logs "received" first; once it is done it has logged exactly
\* one of "completed" (the handler returned) and "failed" (the handler raised)
\* after it, every event and the response carry the request's correlation id,
\* and with no request inside record_request each finished request was counted
\* once, by record_request or by record_error.
C27_OneOutcomePerRequest ==
  /\ \A r \in Arrived :
       /\ reqs[r].events /= <<>>
       /\ reqs[r].events[1].event = "received"
       /\ \A i \in DOMAIN reqs[r].events : reqs[r].events[i].request_id = reqs[r].id
       /\ r \notin Done => EventNames(r) = <<"received">> /\ reqs[r].resp = NoReply
  /\ \A r \in Done :
       /\ reqs[r].resp.request_id = reqs[r].id
       /\ IF reqs[r].out = HandlerRaised
            THEN EventNames(r) = <<"received", "failed">> /\ reqs[r].resp.status = 500
            ELSE /\ EventNames(r) = <<"received", "completed">>
                 /\ reqs[r].resp.status = reqs[r].out.status
  /\ loop = 0 =>
       /\ request_count = Cardinality(DoneServed)
       /\ error_calls = Cardinality(Done \ DoneServed)

\* one request was served and one failed
C27_Witness ==
  /\ Done = Requests
  /\ Done \ DoneServed /= {}
  /\ DoneServed /= {}

====
